---- MODULE Spec2Model ----
(***************************************************************************)
(* Model of src/server.js: the room registry, the Sevens game state of     *)
(* each room, and the handlers of the websocket messages create_room,      *)
(* join_room, start_game, play_card, pass, restart and of the close event. *)
(* One action is one handler run to completion (node runs them one at a    *)
(* time).                                                                  *)
(***************************************************************************)
EXTENDS Integers, Sequences, FiniteSets, TLC

\* ------------------------------------------------------------------ bounds
\* Connections ever accepted by the server (each gets a fresh clientId).
NumClients == 2
\* Room identifiers Math.random() can produce at line 128.
NumRoomIds == 1
\* Highest card value of the deck (the source builds 7..14, line 29).
MaxValue == 8
\* Math.random() streams a shuffle can draw from (line 32).
NumStreams == 2

\* Largest hand given to getValidMoves when it is checked on its own.
MaxHand == 3

\* --------------------------------------------------------- program constants
MinValue == 7
MaxPlayers == 4
MinPlayers == 2

Clients == 1..NumClients
RoomIds == 1..NumRoomIds
\* ws.roomId before any create_room/join_room (undefined in the source).
NoRoomId == 0

\* The suits of createDeck in the order of line 26: spades, hearts,
\* diamonds, clubs.
suits == <<"S", "H", "D", "C">>
Suits == {suits[i] : i \in 1..Len(suits)}
Values == MinValue..MaxValue
Card(s, v) == [suit |-> s, value |-> v]
Cards == {Card(s, v) : s \in Suits, v \in Values}

\* null of a board entry, of room.deck and of room.loser.
NullRun == [low |-> 0, high |-> 0]
NULL == "null"
\* The name checkGameOver reports when nobody is left (line 113).
LastPlayerName == "last player"
\* msg.name: each connection sends its own display name.
NameOf(c) == IF c = 1 THEN "ann" ELSE IF c = 2 THEN "bob" ELSE IF c = 3 THEN "cat" ELSE "dan"

\* The error texts of the source.
ErrRoomNotFound == "room not found"
ErrAlreadyStarted == "game already started"
ErrRoomFull == "room full"
ErrNotHost == "only the host can start"
ErrNotEnoughPlayers == "at least two players needed"
ErrIllegalMove == "invalid move"
ErrIllegalPass == "cannot pass, you have valid moves"

\* ------------------------------------------------------------------- state
VARIABLES
    rooms,      \* the registry: room id -> room, for the ids present
    conn,       \* connection -> [open, roomId], for the connections accepted
    sent,       \* the messages the last handler sent: {[to, type, msg]}
    last,       \* history: the event just handled, [type, phase], phase
                \* being the lifecycle state its room was in on arrival
    probe       \* inputs and result of a pure function under test

vars == <<rooms, conn, sent, last, probe>>

\* ------------------------------------------------------------ createDeck
\* The deck before the shuffle: for s of suits, for v = 7..14.
UnshuffledDeck ==
    [k \in 1..(Len(suits) * (MaxValue - MinValue + 1)) |->
        Card(suits[((k - 1) \div (MaxValue - MinValue + 1)) + 1],
             MinValue + ((k - 1) % (MaxValue - MinValue + 1)))]

\* The k-th Math.random() of stream st, as a numerator over 16.
MathRandom(st, k) == (10 * st + (4 * st + 3) * k) % 16

Swap(d, a, b) == [d EXCEPT ![a] = d[b], ![b] = d[a]]

\* The Fisher-Yates loop of lines 31-34, i counting down to 1 (0-based i,
\* the sequence is 1-based): j = floor(random * (i + 1)).
RECURSIVE ShuffleFrom(_, _, _, _)
ShuffleFrom(d, i, st, k) ==
    IF i <= 0 THEN d
    ELSE LET j == (MathRandom(st, k) * (i + 1)) \div 16
         IN  ShuffleFrom(Swap(d, i + 1, j + 1), i - 1, st, k + 1)

createDeck(st) == ShuffleFrom(UnshuffledDeck, Len(UnshuffledDeck) - 1, st, 0)

Streams == 0..(NumStreams - 1)

initBoard == [s \in Suits |-> NullRun]

\* dealCards handing out the deck in contiguous blocks instead of card by
\* card.
dealCardsBlocks(deck, numPlayers) ==
    LET size == (Len(deck) + numPlayers - 1) \div numPlayers
    IN  [i \in 1..numPlayers |->
            {deck[k] : k \in {x \in 1..Len(deck) : (x - 1) \div size = i - 1}}]

\* hands[i] gets the cards at the (0-based) deck indices congruent to i.
dealCards(deck, numPlayers) ==
    [i \in 1..numPlayers |->
        {deck[k] : k \in {x \in 1..Len(deck) : (x - 1) % numPlayers = i - 1}}]

\* getValidMoves without the check that a 7 needs an unopened suit.
getValidMovesAnySeven(hand, board) ==
    {card \in hand :
        LET b == board[card.suit]
        IN  IF card.value = 7
            THEN TRUE
            ELSE b # NullRun /\ card.value = b.high + 1 /\ b.high < MaxValue}

getValidMoves(hand, board) ==
    {card \in hand :
        LET b == board[card.suit]
        IN  IF card.value = 7
            THEN b = NullRun
            ELSE b # NullRun /\ card.value = b.high + 1 /\ b.high < MaxValue}

\* ----------------------------------------------------------------- rooms
\* The player object of lines 138 and 151.
NewPlayer(c) ==
    [id |-> c, name |-> NameOf(c), hand |-> {}, passed |-> FALSE, isOut |-> FALSE]

\* The room object of lines 129-137, before the creator is pushed.
NewRoom ==
    [players |-> <<>>, deck |-> <<>>, board |-> initBoard, started |-> FALSE,
     turn |-> 0, gameOver |-> FALSE, loser |-> NULL]

\* rooms[id], guarded: an unknown id gives undefined in the source.
HasRoom(rid) == rid \in DOMAIN rooms

\* The lifecycle state of the room with this id: lobby (not started),
\* in_progress (started, not over), finished (gameOver), none (no room).
Phase(rid) ==
    IF ~HasRoom(rid) THEN "none"
    ELSE IF rooms[rid].gameOver THEN "finished"
    ELSE IF rooms[rid].started THEN "in_progress"
    ELSE "lobby"

Handled(t, rid) == [type |-> t, phase |-> Phase(rid)]

\* The player at a 0-based index of room.players.
PlayerAt(room, i) == room.players[i + 1]

\* ------------------------------------------------------------- messages
Msg(c, t, m) == [to |-> c, type |-> t, msg |-> m]
Error(c, m) == {Msg(c, "error", m)}

\* p.ws.readyState === 1: the socket of the player's connection is open.
IsOpen(cn, c) == cn[c].open

broadcast(cn, room, t) ==
    {Msg(room.players[i].id, t, "") :
        i \in {x \in 1..Len(room.players) : IsOpen(cn, room.players[x].id)}}

sendGameState(cn, room) == broadcast(cn, room, "game_state")

\* --------------------------------------------------------------- nextTurn
\* The while loop of lines 102-105; the result keeps count to show how
\* many times the body ran.
RECURSIVE TurnLoop(_, _, _)
TurnLoop(players, next, count) ==
    IF players[next + 1].isOut /\ count < Len(players)
    THEN TurnLoop(players, (next + 1) % Len(players), count + 1)
    ELSE [next |-> next, count |-> count]

\* nextTurn without the skipping of eliminated players.
nextTurnLoopNoSkip(players, turn) ==
    [next |-> (turn + 1) % Len(players), count |-> 0]

nextTurnLoop(players, turn) ==
    TurnLoop(players, (turn + 1) % Len(players), 0)

\* nextTurn leaving the turn where it is.
nextTurnStay(room) == room

nextTurn(room) ==
    [room EXCEPT !.turn = nextTurnLoop(room.players, room.turn).next]

\* ---------------------------------------------------------- checkGameOver
activePlayers(room) == SelectSeq(room.players, LAMBDA p : ~p.isOut)

\* The value checkGameOver returns.
isGameOver(room) == Len(activePlayers(room)) <= 1

\* The room as checkGameOver leaves it.
checkGameOver(room) ==
    IF isGameOver(room)
    THEN [room EXCEPT !.gameOver = TRUE,
                      !.loser = IF Len(activePlayers(room)) > 0
                                THEN activePlayers(room)[1].name
                                ELSE LastPlayerName]
    ELSE room

\* ------------------------------------------------------------- connection
\* wss.on('connection'): the next connection gets a fresh clientId.
ConnectUpTo(n) ==
    /\ Cardinality(DOMAIN conn) < n
    /\ conn' = conn @@ ((Cardinality(DOMAIN conn) + 1) :>
                            [open |-> TRUE, roomId |-> NoRoomId])
    /\ sent' = {}
    /\ last' = Handled("connection", NoRoomId)
    /\ UNCHANGED <<rooms, probe>>

Connect == ConnectUpTo(NumClients)

\* A message arrives only on an accepted, open connection.
Live(c) == c \in DOMAIN conn /\ conn[c].open

\* ------------------------------------------------------------ create_room
CreateRoom(c, rid) ==
    /\ Live(c)
    /\ last' = Handled("create_room", rid)
    /\ LET room == [NewRoom EXCEPT !.players = <<NewPlayer(c)>>]
           cn == [conn EXCEPT ![c].roomId = rid]
       IN  /\ rooms' = (rid :> room) @@ rooms
           /\ conn' = cn
           /\ sent' = {Msg(c, "room_created", "")} \cup broadcast(cn, room, "player_list")
    /\ UNCHANGED probe

\* -------------------------------------------------------------- join_room
\* join_room without the limit on the number of seated players.
JoinRoomNoLimit(c, rid) ==
    /\ Live(c)
    /\ last' = Handled("join_room", rid)
    /\ IF ~HasRoom(rid)
       THEN sent' = Error(c, ErrRoomNotFound) /\ UNCHANGED <<rooms, conn>>
       ELSE IF rooms[rid].started
       THEN sent' = Error(c, ErrAlreadyStarted) /\ UNCHANGED <<rooms, conn>>
       ELSE LET room == [rooms[rid] EXCEPT !.players = Append(@, NewPlayer(c))]
                cn == [conn EXCEPT ![c].roomId = rid]
            IN  /\ rooms' = [rooms EXCEPT ![rid] = room]
                /\ conn' = cn
                /\ sent' = {Msg(c, "joined_room", "")} \cup broadcast(cn, room, "player_list")
    /\ UNCHANGED probe

JoinRoom(c, rid) ==
    /\ Live(c)
    /\ last' = Handled("join_room", rid)
    /\ IF ~HasRoom(rid)
       THEN sent' = Error(c, ErrRoomNotFound) /\ UNCHANGED <<rooms, conn>>
       ELSE IF rooms[rid].started
       THEN sent' = Error(c, ErrAlreadyStarted) /\ UNCHANGED <<rooms, conn>>
       ELSE IF Len(rooms[rid].players) >= MaxPlayers
       THEN sent' = Error(c, ErrRoomFull) /\ UNCHANGED <<rooms, conn>>
       ELSE LET room == [rooms[rid] EXCEPT !.players = Append(@, NewPlayer(c))]
                cn == [conn EXCEPT ![c].roomId = rid]
            IN  /\ rooms' = [rooms EXCEPT ![rid] = room]
                /\ conn' = cn
                /\ sent' = {Msg(c, "joined_room", "")} \cup broadcast(cn, room, "player_list")
    /\ UNCHANGED probe

\* ------------------------------------------------- start_game and restart
\* The first-player search replaced by seat 0.
firstPlayerZero(players) == 0

\* The first seat (0-based) holding the 7 of spades, else 0 (lines 173-179).
firstPlayer(players) ==
    LET holders == {i \in 1..Len(players) : Card("S", 7) \in players[i].hand}
    IN  IF holders = {} THEN 0
        ELSE (CHOOSE i \in holders : \A k \in holders : i <= k) - 1

\* DealRoom that forgets to clear the isOut and passed flags.
DealRoomKeepFlags(room, deck) ==
    LET hands == dealCards(deck, Len(room.players))
        players == [i \in 1..Len(room.players) |->
                      [room.players[i] EXCEPT !.hand = hands[i]]]
    IN  [room EXCEPT !.deck = deck,
                     !.players = players,
                     !.board = initBoard,
                     !.started = TRUE,
                     !.gameOver = FALSE,
                     !.loser = NULL,
                     !.turn = firstPlayer(players)]

\* Lines 164-180 and 243-258: deal the deck, reset the flags and the board,
\* and give the turn to the holder of the 7 of spades.
DealRoom(room, deck) ==
    LET hands == dealCards(deck, Len(room.players))
        players == [i \in 1..Len(room.players) |->
                      [room.players[i] EXCEPT !.hand = hands[i],
                                              !.isOut = FALSE,
                                              !.passed = FALSE]]
    IN  [room EXCEPT !.deck = deck,
                     !.players = players,
                     !.board = initBoard,
                     !.started = TRUE,
                     !.gameOver = FALSE,
                     !.loser = NULL,
                     !.turn = firstPlayer(players)]

StartGame(c, st) ==
    /\ Live(c)
    /\ last' = Handled("start_game", conn[c].roomId)
    /\ LET rid == conn[c].roomId
       IN  IF ~HasRoom(rid)
           THEN sent' = {} /\ UNCHANGED rooms
           ELSE IF rooms[rid].players[1].id # c
           THEN sent' = Error(c, ErrNotHost) /\ UNCHANGED rooms
           ELSE IF Len(rooms[rid].players) < MinPlayers
           THEN sent' = Error(c, ErrNotEnoughPlayers) /\ UNCHANGED rooms
           ELSE LET room == DealRoom(rooms[rid], createDeck(st))
                IN  /\ rooms' = [rooms EXCEPT ![rid] = room]
                    /\ sent' = broadcast(conn, room, "game_started")
                                 \cup sendGameState(conn, room)
    /\ UNCHANGED <<conn, probe>>

Restart(c, st) ==
    /\ Live(c)
    /\ last' = Handled("restart", conn[c].roomId)
    /\ LET rid == conn[c].roomId
       IN  IF ~HasRoom(rid)
           THEN sent' = {} /\ UNCHANGED rooms
           ELSE IF rooms[rid].players[1].id # c
           THEN sent' = {} /\ UNCHANGED rooms
           ELSE LET room == DealRoom(rooms[rid], createDeck(st))
                IN  /\ rooms' = [rooms EXCEPT ![rid] = room]
                    /\ sent' = broadcast(conn, room, "game_started")
                                 \cup sendGameState(conn, room)
    /\ UNCHANGED <<conn, probe>>

\* -------------------------------------------------------------- play_card
\* Lines 188-190: the room exists, is started and not over, and the sender
\* is the player at room.turn.
IsTurnOf(c) ==
    /\ HasRoom(conn[c].roomId)
    /\ rooms[conn[c].roomId].started
    /\ ~rooms[conn[c].roomId].gameOver
    /\ rooms[conn[c].roomId].turn < Len(rooms[conn[c].roomId].players)
    /\ PlayerAt(rooms[conn[c].roomId], rooms[conn[c].roomId].turn).id = c

\* Lines 200-206: a 7 opens the run, another value raises high by one.
\* applyCard rebuilding the board around a played 7, losing the other runs.
applyCardRebuild(board, card) ==
    IF card.value = 7
    THEN [initBoard EXCEPT ![card.suit] = [low |-> 7, high |-> 7]]
    ELSE IF card.value = board[card.suit].high + 1
         THEN [board EXCEPT ![card.suit].high = card.value]
         ELSE board

applyCard(board, card) ==
    IF card.value = 7
    THEN [board EXCEPT ![card.suit] = [low |-> 7, high |-> 7]]
    ELSE IF card.value = board[card.suit].high + 1
         THEN [board EXCEPT ![card.suit].high = card.value]
         ELSE board

\* PlaceCard that puts the card on the board and leaves it in the hand too.
PlaceCardKeep(room, card) ==
    [room EXCEPT !.players[room.turn + 1].passed = FALSE,
                 !.board = applyCard(room.board, card)]

\* Lines 197-208: the card leaves the hand of the player at room.turn, goes
\* to the board, and the player's passed flag is cleared.
PlaceCard(room, card) ==
    [room EXCEPT !.players[room.turn + 1].hand = @ \ {card},
                 !.players[room.turn + 1].passed = FALSE,
                 !.board = applyCard(room.board, card)]

\* Lines 211-220: an emptied hand puts the player out; the game is over
\* (and the turn stays) or the turn moves on.
\* FinishPlay moving the turn on even when the game has ended.
FinishPlayAlwaysAdvance(room) ==
    IF PlayerAt(room, room.turn).hand = {}
    THEN nextTurn(checkGameOver([room EXCEPT !.players[room.turn + 1].isOut = TRUE]))
    ELSE nextTurn(room)

FinishPlay(room) ==
    IF PlayerAt(room, room.turn).hand = {}
    THEN LET out == [room EXCEPT !.players[room.turn + 1].isOut = TRUE]
         IN  IF isGameOver(out) THEN checkGameOver(out) ELSE nextTurn(out)
    ELSE nextTurn(room)

PlayCardRoom(room, card) == FinishPlay(PlaceCard(room, card))

\* The player_out notice of line 213.
PlayerOutNotice(cn, room, placed) ==
    IF PlayerAt(placed, room.turn).hand = {}
    THEN broadcast(cn, room, "player_out")
    ELSE {}

\* play_card checking only that the card is in the hand.
PlayCardAnyHeld(c, card) ==
    /\ Live(c)
    /\ last' = Handled("play_card", conn[c].roomId)
    /\ IF ~IsTurnOf(c)
       THEN sent' = {} /\ UNCHANGED rooms
       ELSE LET rid == conn[c].roomId
                room == rooms[rid]
                player == PlayerAt(room, room.turn)
            IN  IF card \notin player.hand
                THEN sent' = Error(c, ErrIllegalMove) /\ UNCHANGED rooms
                ELSE /\ rooms' = [rooms EXCEPT ![rid] = PlayCardRoom(room, card)]
                     /\ sent' = PlayerOutNotice(conn, room, PlaceCard(room, card))
                                  \cup sendGameState(conn, room)
    /\ UNCHANGED <<conn, probe>>

PlayCard(c, card) ==
    /\ Live(c)
    /\ last' = Handled("play_card", conn[c].roomId)
    /\ IF ~IsTurnOf(c)
       THEN sent' = {} /\ UNCHANGED rooms
       ELSE LET rid == conn[c].roomId
                room == rooms[rid]
                player == PlayerAt(room, room.turn)
            IN  IF card \notin getValidMoves(player.hand, room.board)
                THEN sent' = Error(c, ErrIllegalMove) /\ UNCHANGED rooms
                ELSE /\ rooms' = [rooms EXCEPT ![rid] = PlayCardRoom(room, card)]
                     /\ sent' = PlayerOutNotice(conn, room, PlaceCard(room, card))
                                  \cup sendGameState(conn, room)
    /\ UNCHANGED <<conn, probe>>

\* ------------------------------------------------------------------- pass
\* Lines 233-234.
PassRoom(room) ==
    nextTurn([room EXCEPT !.players[room.turn + 1].passed = TRUE])

\* pass without the check that the player has no valid move.
PassUnchecked(c) ==
    /\ Live(c)
    /\ last' = Handled("pass", conn[c].roomId)
    /\ IF ~IsTurnOf(c)
       THEN sent' = {} /\ UNCHANGED rooms
       ELSE /\ rooms' = [rooms EXCEPT ![conn[c].roomId] = PassRoom(@)]
            /\ sent' = sendGameState(conn, rooms[conn[c].roomId])
    /\ UNCHANGED <<conn, probe>>

Pass(c) ==
    /\ Live(c)
    /\ last' = Handled("pass", conn[c].roomId)
    /\ IF ~IsTurnOf(c)
       THEN sent' = {} /\ UNCHANGED rooms
       ELSE LET rid == conn[c].roomId
                room == rooms[rid]
                player == PlayerAt(room, room.turn)
            IN  IF getValidMoves(player.hand, room.board) # {}
                THEN sent' = Error(c, ErrIllegalPass) /\ UNCHANGED rooms
                ELSE /\ rooms' = [rooms EXCEPT ![rid] = PassRoom(room)]
                     /\ sent' = sendGameState(conn, room)
    /\ UNCHANGED <<conn, probe>>

\* ------------------------------------------------------------------ close
\* Lines 267-276 for a room that keeps a player: the departed player is
\* filtered out and an in-progress turn index past the end goes to 0.
LeaveRoom(room, c) ==
    LET players == SelectSeq(room.players, LAMBDA p : p.id # c)
    IN  IF room.started /\ ~room.gameOver /\ room.turn >= Len(players)
        THEN [room EXCEPT !.players = players, !.turn = 0]
        ELSE [room EXCEPT !.players = players]

Close(c) ==
    /\ Live(c)
    /\ last' = Handled("close", conn[c].roomId)
    /\ conn' = [conn EXCEPT ![c].open = FALSE]
    /\ LET rid == conn[c].roomId
       IN  IF ~HasRoom(rid)
           THEN sent' = {} /\ UNCHANGED rooms
           ELSE LET room == LeaveRoom(rooms[rid], c)
                IN  IF Len(room.players) = 0
                    THEN /\ rooms' = [r \in DOMAIN rooms \ {rid} |-> rooms[r]]
                         /\ sent' = {}
                    ELSE /\ rooms' = [rooms EXCEPT ![rid] = room]
                         /\ sent' = broadcast(conn', room, "player_list")
                                      \cup IF room.started /\ ~room.gameOver
                                           THEN sendGameState(conn', room)
                                           ELSE {}
    /\ UNCHANGED probe

\* ------------------------------------------------------------ the server
NoProbe == [fn |-> "none"]

Init ==
    /\ rooms = <<>>
    /\ conn = <<>>
    /\ sent = {}
    /\ last = Handled("listen", NoRoomId)
    /\ probe = NoProbe

Next ==
    \/ Connect
    \/ \E c \in Clients, rid \in RoomIds : CreateRoom(c, rid)
    \/ \E c \in Clients, rid \in RoomIds : JoinRoom(c, rid)
    \/ \E c \in Clients, st \in Streams : StartGame(c, st)
    \/ \E c \in Clients, card \in Cards : PlayCard(c, card)
    \/ \E c \in Clients : Pass(c)
    \/ \E c \in Clients, st \in Streams : Restart(c, st)
    \/ \E c \in Clients : Close(c)

Spec == Init /\ [][Next]_vars

\* =================================================== getValidMoves alone
\* Every board entry: null, or a run from 7 up to some value of the deck.
Runs == {NullRun} \cup {[low |-> 7, high |-> h] : h \in Values}
Boards == [Suits -> Runs]
Hands == {h \in SUBSET Cards : Cardinality(h) <= MaxHand}

InitValidMoves ==
    /\ rooms = <<>>
    /\ conn = <<>>
    /\ sent = {}
    /\ last = Handled("listen", NoRoomId)
    /\ probe \in {[fn |-> "getValidMoves", hand |-> h, board |-> b,
                   done |-> FALSE, moves |-> {}] : h \in Hands, b \in Boards}

EvalValidMoves ==
    /\ ~probe.done
    /\ probe' = [probe EXCEPT !.done = TRUE,
                              !.moves = getValidMoves(probe.hand, probe.board)]
    /\ UNCHANGED <<rooms, conn, sent, last>>

SpecValidMoves == InitValidMoves /\ [][EvalValidMoves]_vars

\* A suit is opened on a board when its run is not null.
Opened(board, s) == board[s] # NullRun

\* The legal-move set as the rules state it: the 7 of a suit not yet opened,
\* or the value just above the high of an opened suit.
LegalMoveSet(hand, board) ==
    {card \in hand :
        \/ card.value = 7 /\ ~Opened(board, card.suit)
        \/ /\ card.value > 7
           /\ Opened(board, card.suit)
           /\ board[card.suit].high = card.value - 1}

SeatFlags == {[isOut |-> TRUE], [isOut |-> FALSE]}

InitNextTurn ==
    /\ rooms = <<>>
    /\ conn = <<>>
    /\ sent = {}
    /\ last = Handled("listen", NoRoomId)
    /\ probe \in {[fn |-> "nextTurn", players |-> ps, turn |-> t,
                   done |-> FALSE, next |-> t, count |-> 0] :
                    ps \in UNION {[1..n -> SeatFlags] : n \in 1..MaxPlayers},
                    t \in 0..(MaxPlayers - 1)}
    /\ probe.turn < Len(probe.players)

EvalNextTurn ==
    /\ ~probe.done
    /\ probe' = [probe EXCEPT
                   !.done = TRUE,
                   !.next = nextTurnLoop(probe.players, probe.turn).next,
                   !.count = nextTurnLoop(probe.players, probe.turn).count]
    /\ UNCHANGED <<rooms, conn, sent, last>>

SpecNextTurn == InitNextTurn /\ [][EvalNextTurn]_vars

\* C10: for every player count, starting index and combination of isOut
\* flags, the loop of nextTurn runs its body at most once per seat, leaves
\* an index inside the player sequence and, when some player is not out,
\* leaves it on a player who is not out.
C10_NextTurnBounded ==
    probe.done =>
        /\ probe.count <= Len(probe.players)
        /\ probe.next \in 0..(Len(probe.players) - 1)
        /\ (\E i \in 1..Len(probe.players) : ~probe.players[i].isOut)
              => ~probe.players[probe.next + 1].isOut

\* The turn had to skip two eliminated seats and wrap around the end.
C10_Witness ==
    /\ probe.done
    /\ probe.count = 2
    /\ probe.next < probe.turn
    /\ ~probe.players[probe.next + 1].isOut

\* ============================================================ the rooms
\* The room of a connection and the player whose turn it is there.
RoomOf(c) == rooms[conn[c].roomId]
Current(c) == PlayerAt(RoomOf(c), RoomOf(c).turn)
Seats(room) == 1..Len(room.players)
NotOut(room) == {i \in Seats(room) : ~room.players[i].isOut}

\* C1: in an in-progress room, a play_card of the current turn's player
\* naming a card outside that player's legal-move set is answered with the
\* invalid-move error to the sender and leaves every room as it was.
C1_IllegalPlayRejected ==
    [][\A c \in Clients, card \in Cards :
         ( /\ Live(c)
           /\ IsTurnOf(c)
           /\ card \notin LegalMoveSet(Current(c).hand, RoomOf(c).board)
           /\ PlayCard(c, card) )
         => /\ rooms' = rooms
            /\ sent' = Error(c, ErrIllegalMove)]_vars

\* The current player has just been refused a card.
C1_Witness ==
    /\ last = [type |-> "play_card", phase |-> "in_progress"]
    /\ \E c \in DOMAIN conn :
          /\ Live(c)
          /\ IsTurnOf(c)
          /\ sent = Error(c, ErrIllegalMove)
          /\ Current(c).hand # {}

\* The seat the turn goes to from seat index t: the first seat after t, going
\* round, whose player is not out.
AdvancedFrom(room, t, t2) ==
    LET n == Len(room.players)
        dist == {d \in 1..n : ~room.players[((t + d) % n) + 1].isOut}
    IN  /\ t2 \in 0..(n - 1)
        /\ dist # {} =>
             t2 = (t + (CHOOSE d \in dist : \A e \in dist : d <= e)) % n

\* C3: a pass of the current turn's player is refused with the cannot-pass
\* error, the rooms unchanged, when the player has a legal move; with no
\* legal move it sets the player's passed flag, moves the turn on and
\* changes nothing else.
C3_PassOnlyWhenStuck ==
    [][\A c \in Clients :
         (Live(c) /\ IsTurnOf(c) /\ Pass(c))
         => LET rid == conn[c].roomId
                room == rooms[rid]
            IN  IF LegalMoveSet(Current(c).hand, room.board) # {}
                THEN /\ rooms' = rooms
                     /\ sent' = Error(c, ErrIllegalPass)
                ELSE /\ rooms'[rid].players[room.turn + 1].passed
                     /\ AdvancedFrom(room, room.turn, rooms'[rid].turn)
                     /\ rooms' = [rooms EXCEPT ![rid] =
                            [room EXCEPT !.players[room.turn + 1].passed = TRUE,
                                         !.turn = rooms'[rid].turn]]
                     /\ \A m \in sent' : m.type # "error"]_vars

\* A player with cards and no legal move has passed and the turn is with
\* another seat.
C3_Witness ==
    /\ last = [type |-> "pass", phase |-> "in_progress"]
    /\ \E rid \in DOMAIN rooms : \E i \in Seats(rooms[rid]) :
          /\ rooms[rid].players[i].passed
          /\ rooms[rid].players[i].hand # {}
          /\ rooms[rid].turn # i - 1
          /\ \E m \in sent : m.type = "game_state"

\* C4: between commands, a started room that is not over has its turn index
\* inside the player sequence and on a player who is not out.
C4_TurnOnActivePlayer ==
    \A rid \in DOMAIN rooms :
        (rooms[rid].started /\ ~rooms[rid].gameOver)
        => /\ rooms[rid].turn \in 0..(Len(rooms[rid].players) - 1)
           /\ ~PlayerAt(rooms[rid], rooms[rid].turn).isOut

\* C5: game-over fires exactly when the count of seated players who are not
\* out drops to at most one: a step of a started room that takes the count
\* from two or more to at most one (a last card played, a player
\* disconnecting) leaves the room over, and with exactly one left the loser
\* is that player's name.
C5_GameOverFiresWhenOneLeft ==
    [][\A rid \in (DOMAIN rooms) \cap (DOMAIN rooms') :
         ( /\ rooms[rid].started
           /\ rooms'[rid].started
           /\ ~rooms[rid].gameOver
           /\ Cardinality(NotOut(rooms[rid])) >= 2
           /\ Cardinality(NotOut(rooms'[rid])) <= 1
           /\ last'.type \notin {"start_game", "restart"} )
         => /\ rooms'[rid].gameOver
            /\ \A i \in NotOut(rooms'[rid]) :
                  rooms'[rid].loser = rooms'[rid].players[i].name]_vars

\* C6: a start_game of the host in a room that has already started (with
\* the two players a start needs) is answered with the already-started error
\* and leaves every room as it was.
C6_StartRejectedWhenStarted ==
    [][\A c \in Clients, st \in Streams :
         ( /\ Live(c)
           /\ HasRoom(conn[c].roomId)
           /\ RoomOf(c).players[1].id = c
           /\ Len(RoomOf(c).players) >= MinPlayers
           /\ RoomOf(c).started
           /\ StartGame(c, st) )
         => /\ rooms' = rooms
            /\ sent' = Error(c, ErrAlreadyStarted)]_vars

C7_WitnessGoesOn ==
    /\ last = [type |-> "play_card", phase |-> "in_progress"]
    /\ \E rid \in DOMAIN rooms :
          /\ ~rooms[rid].gameOver
          /\ \E m \in sent : m.type = "player_out"
          /\ Cardinality(NotOut(rooms[rid])) >= 2
          /\ rooms[rid].turn + 1 \in NotOut(rooms[rid])

\* C8: after a restart of the host in a started room (in progress or
\* finished) the board is empty in all four suits, no seated player is out or
\* has passed, the hands split the whole deck among the same seated players,
\* started is true, gameOver false and loser null.
C8_RestartResets ==
    [][\A c \in Clients, st \in Streams :
         ( /\ Live(c)
           /\ HasRoom(conn[c].roomId)
           /\ RoomOf(c).players[1].id = c
           /\ RoomOf(c).started
           /\ Restart(c, st) )
         => LET room == RoomOf(c)
                after == rooms'[conn[c].roomId]
            IN  /\ after.board = [s \in Suits |-> NullRun]
                /\ Len(after.players) = Len(room.players)
                /\ \A i \in Seats(room) :
                      /\ after.players[i].id = room.players[i].id
                      /\ after.players[i].name = room.players[i].name
                      /\ ~after.players[i].isOut
                      /\ ~after.players[i].passed
                /\ UNION {after.players[i].hand : i \in Seats(room)} = Cards
                /\ \A i, k \in Seats(room) :
                      i # k => after.players[i].hand \cap after.players[k].hand = {}
                /\ after.started
                /\ ~after.gameOver
                /\ after.loser = NULL]_vars

\* The host has restarted a finished game with two or more players seated.
C8_Witness ==
    /\ last = [type |-> "restart", phase |-> "finished"]
    /\ \E rid \in DOMAIN rooms :
          /\ rooms[rid].started
          /\ ~rooms[rid].gameOver
          /\ rooms[rid].board = initBoard
          /\ Len(rooms[rid].players) >= 2
          /\ \E m \in sent : m.type = "game_started"

\* The high of a run, 0 for a suit not opened.
RunHigh(b) == IF b = NullRun THEN 0 ELSE b.high

\* C9: across a step of a started room no run's high goes down, except that
\* a start_game or restart step empties the runs; and a successful play of
\* card (s, r) leaves the run of s with high r and the other suits as they
\* were.
C9_RunsOnlyGrow ==
    [][/\ \A rid \in (DOMAIN rooms) \cap (DOMAIN rooms') :
            (rooms[rid].started /\ rooms'[rid].started)
            => \A s \in Suits :
                  RunHigh(rooms'[rid].board[s]) < RunHigh(rooms[rid].board[s])
                  => /\ last'.type \in {"start_game", "restart"}
                     /\ rooms'[rid].board[s] = NullRun
       /\ \A c \in Clients, card \in Cards :
            ( /\ Live(c)
              /\ IsTurnOf(c)
              /\ card \in LegalMoveSet(Current(c).hand, RoomOf(c).board)
              /\ PlayCard(c, card) )
            => LET before == RoomOf(c).board
                   after == rooms'[conn[c].roomId].board
               IN  /\ after[card.suit] = [low |-> 7, high |-> card.value]
                   /\ \A s \in Suits \ {card.suit} : after[s] = before[s]]_vars

\* A card above the 7 has just been played on its run while another suit is
\* open and a third is not.
C9_Witness ==
    /\ last = [type |-> "play_card", phase |-> "in_progress"]
    /\ \E rid \in DOMAIN rooms : \E s1, s2, s3 \in Suits :
          /\ RunHigh(rooms[rid].board[s1]) > 7
          /\ RunHigh(rooms[rid].board[s2]) = 7
          /\ RunHigh(rooms[rid].board[s3]) = 0

\* A start_game or restart of connection c that the handler accepts: c is
\* the host of its room and, for start_game, two players are seated.
DealsBy(c, st) ==
    /\ Live(c)
    /\ HasRoom(conn[c].roomId)
    /\ RoomOf(c).players[1].id = c
    /\ \/ Len(RoomOf(c).players) >= MinPlayers /\ StartGame(c, st)
       \/ Restart(c, st)

\* C11: right after an accepted start_game or restart the turn index is the
\* seat of the player whose hand holds the 7 of spades, for every deal and
\* player count.
C11_FirstTurnHoldsSevenOfSpades ==
    [][\A c \in Clients, st \in Streams :
         DealsBy(c, st)
         => LET after == rooms'[conn[c].roomId]
            IN  /\ after.turn \in 0..(Len(after.players) - 1)
                /\ Card("S", 7) \in PlayerAt(after, after.turn).hand]_vars

\* A deal has just put the 7 of spades, and so the turn, at a seat other
\* than the host's.
C11_Witness ==
    /\ last.type \in {"start_game", "restart"}
    /\ \E rid \in DOMAIN rooms :
          /\ \E m \in sent : m.type = "game_started"
          /\ rooms[rid].turn > 0
          /\ Len(rooms[rid].players) \in MinPlayers..MaxPlayers
          /\ Card("S", 7) \in PlayerAt(rooms[rid], rooms[rid].turn).hand

\* C12: a join_room is refused with the room-full error when 4 players are
\* seated in a lobby and with the already-started error when the room has
\* started, the rooms unchanged; so no room ever seats more than 4 players
\* and, across a step of a started room, nobody is added to its seats.
C12_JoinLimits ==
    [][/\ \A c \in Clients, rid \in RoomIds :
            (Live(c) /\ HasRoom(rid) /\ JoinRoom(c, rid))
            => /\ rooms[rid].started
                  => rooms' = rooms /\ sent' = Error(c, ErrAlreadyStarted)
               /\ (~rooms[rid].started /\ Len(rooms[rid].players) >= MaxPlayers)
                  => rooms' = rooms /\ sent' = Error(c, ErrRoomFull)
       /\ \A rid \in DOMAIN rooms' : Len(rooms'[rid].players) <= MaxPlayers
       /\ \A rid \in (DOMAIN rooms) \cap (DOMAIN rooms') :
            (rooms[rid].started /\ rooms'[rid].started)
            => /\ Len(rooms'[rid].players) <= Len(rooms[rid].players)
               /\ \A i \in Seats(rooms'[rid]) : \E k \in Seats(rooms[rid]) :
                     rooms'[rid].players[i].id = rooms[rid].players[k].id]_vars

\* A join has just been refused because four players sit in the lobby.
C12_Witness ==
    /\ last = [type |-> "join_room", phase |-> "lobby"]
    /\ \E c \in DOMAIN conn : sent = Error(c, ErrRoomFull)
    /\ \E rid \in DOMAIN rooms :
          Len(rooms[rid].players) = MaxPlayers /\ ~rooms[rid].started

\* The other refusal of C12: a join into a room that has started.
C12_WitnessStarted ==
    /\ last.type = "join_room"
    /\ last.phase \in {"in_progress", "finished"}
    /\ \E c \in DOMAIN conn : sent = Error(c, ErrAlreadyStarted)

\* Connection c has a seat in the room.
SeatedIn(room, c) == \E i \in Seats(room) : room.players[i].id = c

\* The room of c is in progress, c is seated in it and the turn is with
\* another player.
OutOfTurn(c) ==
    /\ Live(c)
    /\ HasRoom(conn[c].roomId)
    /\ RoomOf(c).started
    /\ ~RoomOf(c).gameOver
    /\ SeatedIn(RoomOf(c), c)
    /\ RoomOf(c).turn < Len(RoomOf(c).players)
    /\ Current(c).id # c

\* C13: a play_card or pass of a seated player whose turn it is not, in a
\* room in progress, is answered with an error message to that sender and
\* to nobody else, and leaves the rooms unchanged.
C13_NotYourTurnReported ==
    [][\A c \in Clients :
         ( /\ OutOfTurn(c)
           /\ \/ Pass(c)
              \/ \E card \in Cards : PlayCard(c, card) )
         => /\ rooms' = rooms
            /\ \E m \in sent' : m.type = "error" /\ m.to = c
            /\ \A m \in sent' : m.to = c]_vars

\* ================================================ the registry on its own
\* The lobby traffic of the server (connections, create_room, join_room,
\* close) with one more room identifier than the games are checked with, so
\* that two rooms can exist side by side.
RegistryIds == 1..(NumRoomIds + 1)

NextRegistry ==
    \/ Connect
    \/ \E c \in Clients, rid \in RegistryIds : CreateRoom(c, rid)
    \/ \E c \in Clients, rid \in RegistryIds : JoinRoom(c, rid)
    \/ \E c \in Clients : Close(c)

SpecRegistry == Init /\ [][NextRegistry]_vars

\* C14: every room in the registry has a seated player whose connection is
\* open (once all its seated connections have closed the room is gone), and
\* no connection is seated in two rooms at once.
C14_RoomsLiveAndDisjoint ==
    /\ \A rid \in DOMAIN rooms :
          \E i \in Seats(rooms[rid]) : conn[rooms[rid].players[i].id].open
    /\ \A c \in DOMAIN conn :
          Cardinality({rid \in DOMAIN rooms : SeatedIn(rooms[rid], c)}) <= 1

\* C15: a deal (an accepted start_game, or a restart) over n seats, n in
\* 2..4, is a partition of the full deck: the room's deck is a permutation of
\* all the cards, the card at deck position i (0-based) is in the hand of seat
\* i mod n, the hands are pairwise disjoint and together hold every card, and
\* the hand sizes never grow from one seat to the next and differ by at most
\* one (the larger hands sit at the lower seats).
C15_DealIsPartition ==
    [][\A c \in Clients, st \in Streams :
         ( /\ DealsBy(c, st)
           /\ Len(RoomOf(c).players) \in MinPlayers..MaxPlayers )
         => LET after == rooms'[conn[c].roomId]
                n     == Len(after.players)
                hand(i) == after.players[i].hand
            IN  /\ n = Len(RoomOf(c).players)
                /\ Len(after.deck) = Cardinality(Cards)
                /\ {after.deck[k] : k \in 1..Len(after.deck)} = Cards
                /\ \A k \in 1..Len(after.deck) :
                      after.deck[k] \in hand(((k - 1) % n) + 1)
                /\ \A i, j \in 1..n : i # j => hand(i) \cap hand(j) = {}
                /\ UNION {hand(i) : i \in 1..n} = Cards
                /\ \A i, j \in 1..n :
                      i < j => /\ Cardinality(hand(i)) >= Cardinality(hand(j))
                               /\ Cardinality(hand(i)) - Cardinality(hand(j)) <= 1]_vars

\* A deal over three seats has just been made: the hands are uneven, the
\* smaller one at the last seat.
C15_Witness ==
    /\ last.type \in {"start_game", "restart"}
    /\ \E m \in sent : m.type = "game_started"
    /\ \E rid \in DOMAIN rooms :
          /\ rooms[rid].started
          /\ Len(rooms[rid].players) = 3
          /\ Cardinality(rooms[rid].players[1].hand)
               > Cardinality(rooms[rid].players[3].hand)
          /\ \A i \in 1..3 : rooms[rid].players[i].hand # {}

\* C16: a restart sent by the host of a room that has not been started does
\* nothing: the room is left as it was.
C16_RestartInLobbyIsNoOp ==
    [][\A c \in Clients, st \in Streams :
         ( /\ Live(c)
           /\ HasRoom(conn[c].roomId)
           /\ RoomOf(c).players[1].id = c
           /\ ~RoomOf(c).started
           /\ Restart(c, st) )
         => rooms' = rooms]_vars

\* C17: every deal is made over 2 to 4 seated players.
C17_DealHasTwoToFourSeats ==
    [][\A c \in Clients, st \in Streams :
         ( /\ StartGame(c, st) \/ Restart(c, st)
           /\ \E m \in sent' : m.type = "game_started" )
         => Len(rooms'[conn[c].roomId].players) \in MinPlayers..MaxPlayers]_vars

\* ================================================== games nobody leaves
\* The server as its players drive it while every seated player stays for
\* the whole game: a connection closes only while its room has not been
\* started, it takes a seat in a room only while it has no seat in another
\* one (so ws.roomId is the room it is seated in), and while a game is in
\* progress its room receives play_card and pass only (no create_room over
\* its id, no second start_game, no restart).
InProgress(rid) == Phase(rid) = "in_progress"

SeatedElsewhere(c, rid) ==
    \E r \in DOMAIN rooms \ {rid} :
        \E i \in 1..Len(rooms[r].players) : rooms[r].players[i].id = c

\* The move of the player whose turn it is in a room: a legal card if there
\* is one, a pass otherwise.
TurnStepIn(rid) ==
    \E c \in Clients :
        /\ Live(c)
        /\ conn[c].roomId = rid
        /\ IsTurnOf(c)
        /\ IF getValidMoves(Current(c).hand, RoomOf(c).board) # {}
           THEN \E card \in getValidMoves(Current(c).hand, RoomOf(c).board) :
                    PlayCard(c, card)
           ELSE Pass(c)

NextNoLeave ==
    \/ Connect
    \/ \E c \in Clients, rid \in RoomIds :
          ~InProgress(rid) /\ ~SeatedElsewhere(c, rid) /\ CreateRoom(c, rid)
    \/ \E c \in Clients, rid \in RoomIds :
          ~SeatedElsewhere(c, rid) /\ JoinRoom(c, rid)
    \/ \E c \in Clients, st \in Streams :
          Live(c) /\ ~InProgress(conn[c].roomId) /\ StartGame(c, st)
    \/ \E c \in Clients, card \in Cards : PlayCard(c, card)
    \/ \E c \in Clients : Pass(c)
    \/ \E c \in Clients, st \in Streams :
          Live(c) /\ ~InProgress(conn[c].roomId) /\ Restart(c, st)
    \/ \E c \in Clients :
          /\ Live(c)
          /\ HasRoom(conn[c].roomId) => ~RoomOf(c).started
          /\ Close(c)

SpecNoLeave == Init /\ [][NextNoLeave]_vars

\* The same with the players taking their turns: the move of the current
\* player is not postponed for ever.
FairNoLeave == SpecNoLeave /\ \A rid \in RoomIds : WF_vars(TurnStepIn(rid))

\* The cards lying on the board: for each opened suit the values from 7 up
\* to the high of its run.
OnBoard(board) ==
    {card \in Cards : Opened(board, card.suit)
                        /\ card.value <= board[card.suit].high}

\* C18: while a game nobody has left is in progress, some player who is not
\* out holds a card of the legal-move set (the players are never all stuck),
\* and with the current player always taking a turn (a legal card when there
\* is one, a pass otherwise) an in-progress room reaches game-over.
C18_NeverAllStuck ==
    /\ [](\A rid \in RoomIds :
            InProgress(rid)
            => \E i \in NotOut(rooms[rid]) :
                  LegalMoveSet(rooms[rid].players[i].hand, rooms[rid].board) # {})
    /\ \A rid \in RoomIds : InProgress(rid) ~> (Phase(rid) = "finished")

\* A pass has just been taken in a game in progress: the player who passed
\* was stuck, and the legal card is in another hand.
C18_Witness ==
    /\ last = [type |-> "pass", phase |-> "in_progress"]
    /\ \E m \in sent : m.type = "game_state"
    /\ \E rid \in RoomIds :
          /\ InProgress(rid)
          /\ \E i \in Seats(rooms[rid]) : rooms[rid].players[i].passed
          /\ \E i \in NotOut(rooms[rid]) :
                /\ ~rooms[rid].players[i].passed
                /\ LegalMoveSet(rooms[rid].players[i].hand, rooms[rid].board) # {}

\* A game nobody has left has been played to its end.
C18_WitnessOver ==
    /\ last = [type |-> "play_card", phase |-> "in_progress"]
    /\ \E rid \in RoomIds :
          /\ Phase(rid) = "finished"
          /\ Len(rooms[rid].players) >= MinPlayers

\* C19: in a started room nobody has left since the deal, the hands and the
\* cards on the board (for each opened suit the values 7 up to its high) are
\* together exactly the deck, no card is in two hands or both in a hand and
\* on the board, and a seated player is out exactly when their hand is empty.
C19_CardsConserved ==
    \A rid \in DOMAIN rooms :
        rooms[rid].started
        => LET room == rooms[rid]
               hand(i) == room.players[i].hand
           IN  /\ UNION {hand(i) : i \in Seats(room)} \cup OnBoard(room.board) = Cards
               /\ \A i, j \in Seats(room) : i # j => hand(i) \cap hand(j) = {}
               /\ \A i \in Seats(room) : hand(i) \cap OnBoard(room.board) = {}
               /\ \A i \in Seats(room) : room.players[i].isOut <=> hand(i) = {}

\* A card has just been played that emptied a hand while the game goes on:
\* one player is out, the others hold the rest of the deck.
C19_Witness ==
    /\ last = [type |-> "play_card", phase |-> "in_progress"]
    /\ \E m \in sent : m.type = "player_out"
    /\ \E rid \in RoomIds :
          /\ InProgress(rid)
          /\ \E i \in Seats(rooms[rid]) :
                rooms[rid].players[i].isOut /\ rooms[rid].players[i].hand = {}
          /\ OnBoard(rooms[rid].board) # {}

\* ============================================== one seat per connection
\* The server with one more connection than the other checks use, each
\* connection taking at most one seat (it creates or joins a room only while
\* it has none), a game started once from the lobby and never restarted.
Trio == 1..(NumClients + 1)

Unseated(c) == Live(c) /\ conn[c].roomId = NoRoomId

NextDistinct ==
    \/ ConnectUpTo(NumClients + 1)
    \/ \E c \in Trio, rid \in RoomIds :
          Unseated(c) /\ ~HasRoom(rid) /\ CreateRoom(c, rid)
    \/ \E c \in Trio, rid \in RoomIds : Unseated(c) /\ JoinRoom(c, rid)
    \/ \E c \in Trio, st \in Streams :
          Live(c) /\ Phase(conn[c].roomId) = "lobby" /\ StartGame(c, st)
    \/ \E c \in Trio, card \in Cards : PlayCard(c, card)
    \/ \E c \in Trio : Pass(c)
    \/ \E c \in Trio : Close(c)

SpecDistinct == Init /\ [][NextDistinct]_vars

\* C20: when a seated player who is not the current turn's player disconnects
\* from a game in progress (and the room remains), the player whose turn it
\* is afterwards is the same player as before.
C20_TurnHolderKeptOnDeparture ==
    [][\A c \in Trio :
         ( /\ Live(c)
           /\ InProgress(conn[c].roomId)
           /\ SeatedIn(RoomOf(c), c)
           /\ RoomOf(c).turn < Len(RoomOf(c).players)
           /\ Current(c).id # c
           /\ Close(c)
           /\ conn[c].roomId \in DOMAIN rooms' )
         => LET after == rooms'[conn[c].roomId]
            IN  /\ after.turn < Len(after.players)
                /\ PlayerAt(after, after.turn).id = Current(c).id]_vars

====
